---- MODULE Spec2Model ----
(***************************************************************************)
(* Degree/minute/second coordinates of src/src/dms.rs: DMSBasic::new (the  *)
(* carry of seconds into minutes and of minutes into degrees), DMS::new    *)
(* (the reduction of the degree fields), the two Display implementations,  *)
(* and From<Coord> for DMS.                                                *)
(*                                                                         *)
(* Numbers.  An i32 is an integer of I32Min..I32Max.  A u32 is held as its *)
(* 32-bit pattern read in two's complement: a value below 2^31 is itself,  *)
(* a value v >= 2^31 is held as v - 2^32 (so 4294967295 is held as -1).    *)
(* An f64 number of seconds is held as an integer count of 1/SecRes        *)
(* seconds, and an f64 number of degrees as an integer count of the same   *)
(* angle (1/(3600 * SecRes) degree).  NaN, the infinities and seconds      *)
(* beyond the 32-bit count are outside the model.                          *)
(***************************************************************************)
EXTENDS Integers, Sequences, TLC

VARIABLES
    overflowChecks, \* the build: TRUE when integer overflow panics (debug)
    call,           \* the operation performed last
    argB,           \* DMSBasic::new: the arguments (dd, mm, ss)
    retB,           \* DMSBasic::new: the triple returned
    argD,           \* DMS::new: the arguments (lat, lon)
    argC,           \* From<Coord>: the Coord converted
    dms,            \* the DMS built last
    src,            \* the constructor that built dms
    text,           \* Display: the pieces written to the formatter
    retC,           \* Into<Coord>: the Coord returned
    panicked,       \* the thread panicked (arithmetic overflow, checked build)
    overflowed      \* an integer addition left its 32-bit range

vars == <<overflowChecks, call, argB, retB, argD, argC, dms, src, text, retC,
          panicked, overflowed>>

----------------------------------------------------------------------------
(* Bounds of the inputs explored. *)

\* half-width of the window of inputs taken around each boundary value
W == 2

\* number of whole turns of 90 / 180 degrees explored either side of zero
MaxTurns == 2

Window(c) == { c + i : i \in -W..W }

----------------------------------------------------------------------------
(* Machine integers. *)

I32Max == 2147483647
I32Min == -I32Max - 1

\* u32::MAX in the two's complement reading of a u32
U32Max == I32Min + I32Max

\* 2^32 = n * TwoTo32Div(n) + TwoTo32Mod(n)
TwoTo32Div(n) == 2 * (I32Max \div n) + (2 * ((I32Max % n) + 1)) \div n
TwoTo32Mod(n) == (2 * ((I32Max % n) + 1)) % n

\* unsigned m > k, for 0 <= k < 2^31
U32Gt(m, k) == m < 0 \/ m > k

\* unsigned m / n and m % n, for 0 < n < 2^31
U32Div(m, n) ==
    IF m >= 0 THEN m \div n ELSE TwoTo32Div(n) + ((m + TwoTo32Mod(n)) \div n)

U32Rem(m, n) ==
    IF m >= 0 THEN m % n ELSE (m + TwoTo32Mod(n)) % n

\* unsigned m + c leaves 0..2^32-1, for 0 <= c < 2^31
U32AddOverflows(m, c) == m < 0 /\ m + c >= 0

\* unsigned m + c modulo 2^32
U32WrappingAdd(m, c) ==
    IF m >= 0 /\ m > I32Max - c
    THEN (m - I32Max - 1) + (c - I32Max - 1)
    ELSE m + c

\* signed d + q leaves I32Min..I32Max, for q >= 0
I32AddOverflows(d, q) == d > I32Max - q

\* signed d + q modulo 2^32
I32WrappingAdd(d, q) ==
    IF d > I32Max - q
    THEN (d - I32Max - 1) + (q - I32Max - 1)
    ELSE d + q

\* a % n of Rust on i32: the remainder has the sign of the dividend
I32Rem(a, n) ==
    LET r == a % n
    IN  IF a >= 0 \/ r = 0 THEN r ELSE r - n

----------------------------------------------------------------------------
(* Seconds. *)

\* counts per second of arc
SecRes == 100

\* 60.0 seconds, 60 minutes and one degree, in counts
Minute == 60 * SecRes
Degree == 60 * Minute

\* a / b and a % b of f64 on counts, b > 0: (a / b).trunc() and the remainder
\* with the sign of a
F64TruncDiv(a, b) == IF a >= 0 THEN a \div b ELSE -((-a) \div b)
F64Rem(a, b) == IF a >= 0 THEN a % b ELSE -((-a) % b)

\* x as u32 for a whole f64 x: negative values saturate to 0
F64AsU32(x) == IF x < 0 THEN 0 ELSE x

----------------------------------------------------------------------------
(* DMSBasic::new. *)

\* a DMSBasic value
Triple(dd, mm, ss) == [dd |-> dd, mm |-> mm, ss |-> ss]

\* the comparison written >= : 60.0 seconds are carried too
SecondsExceedGe(ss) == ss >= Minute

\* if ss > 60.0
SecondsExceed(ss) == ss > Minute

\* the quotient rounded to nearest instead of truncated
SecondsCarryRounded(ss) == F64AsU32(F64TruncDiv(ss + Minute \div 2, Minute))

\* (ss / 60.0).trunc() as u32
SecondsCarry(ss) == F64AsU32(F64TruncDiv(ss, Minute))

\* the remainder forgotten: the seconds carried stay in ss as well
SecondsRestKept(ss) == ss

\* ss %= 60.0
SecondsRest(ss) == F64Rem(ss, Minute)

\* the comparison written >= : 60 minutes are carried too
MinutesExceedGe(mm) == U32Gt(mm, 59)

\* if mm > 60
MinutesExceed(mm) == U32Gt(mm, 60)

\* (mm / 60) as i32: the quotient is below 2^31, the cast keeps it
MinutesCarry(mm) == U32Div(mm, 60)

\* one degree's worth of minutes taken off instead of the remainder
MinutesRestOnce(mm) ==
    IF mm < I32Min + 60 THEN (mm + I32Max) + (I32Max - 58) ELSE mm - 60

\* mm %= 60
MinutesRest(mm) == U32Rem(mm, 60)

\* DMSBasic::new(dd, mm, ss) in a build whose overflow checks are `checks`:
\* the triple returned, whether an addition left its range, and whether the
\* call panicked instead of returning
DMSBasicNew(dd, mm, ss, checks) ==
    LET c    == SecondsCarry(ss)
        ovf1 == SecondsExceed(ss) /\ U32AddOverflows(mm, c)
        mm1  == IF SecondsExceed(ss) THEN U32WrappingAdd(mm, c) ELSE mm
        ss1  == IF SecondsExceed(ss) THEN SecondsRest(ss) ELSE ss
        q    == MinutesCarry(mm1)
        ovf2 == MinutesExceed(mm1) /\ I32AddOverflows(dd, q)
        dd2  == IF MinutesExceed(mm1) THEN I32WrappingAdd(dd, q) ELSE dd
        mm2  == IF MinutesExceed(mm1) THEN MinutesRest(mm1) ELSE mm1
    IN  [ panic    |-> checks /\ (ovf1 \/ ovf2),
          overflow |-> ovf1 \/ ovf2,
          value    |-> Triple(dd2, mm2, ss1) ]

----------------------------------------------------------------------------
(* DMS::new. *)

\* a DMS value
Pair(lat, lon) == [lat |-> lat, lon |-> lon]

\* the remainder taken non-negative (Euclidean) instead of truncated
LatReduceEuclid(dd) == IF dd < -90 \/ dd > 90 THEN dd % 90 ELSE dd

\* if lat.dd < -90 || lat.dd > 90 { lat.dd %= 90 }
LatReduce(dd) == IF dd < -90 \/ dd > 90 THEN I32Rem(dd, 90) ELSE dd

\* if lon.dd < -180 || lon.dd > 180 { lon.dd %= 180 }
LonReduce(dd) == IF dd < -180 \/ dd > 180 THEN I32Rem(dd, 180) ELSE dd

\* DMS::new(lat, lon)
DMSNew(lat, lon) ==
    Pair([lat EXCEPT !.dd = LatReduce(lat.dd)],
         [lon EXCEPT !.dd = LonReduce(lon.dd)])

----------------------------------------------------------------------------
(* From<Coord> for DMS. *)

\* coord.lat * 3600.0: degrees to seconds.  Both are counts of the same
\* angle, Degree counts to the degree and Degree / 3600 counts to the second.
DegreesToSeconds(x) == x * ((3600 * SecRes) \div Degree)

\* DMS::from(coord), with the flags of the two DMSBasic::new calls
DMSFromCoord(coord, checks) ==
    LET lat == DMSBasicNew(0, 0, DegreesToSeconds(coord.lat), checks)
        lon == DMSBasicNew(0, 0, DegreesToSeconds(coord.lon), checks)
    IN  [ panic    |-> lat.panic \/ lon.panic,
          overflow |-> lat.overflow \/ lon.overflow,
          value    |-> DMSNew(lat.value, lon.value) ]

----------------------------------------------------------------------------
(* Display. *)

\* self.dd.abs(): i32::MIN has no absolute value, the unchecked build
\* returns it as it is
I32Abs(d) == IF d = I32Min THEN d ELSE IF d < 0 THEN -d ELSE d

\* {} of a u32
U32ToString(m) ==
    IF m >= 0 THEN ToString(m)
    ELSE ToString(U32Div(m, 10)) \o ToString(U32Rem(m, 10))

\* {} of an f64 of whole hundredths: the shortest decimal that reads back
F64ToString(x) ==
    LET a     == IF x < 0 THEN -x ELSE x
        whole == a \div SecRes
        frac  == a % SecRes
        digits == IF frac = 0 THEN ""
                  ELSE IF frac % 10 = 0 THEN "." \o ToString(frac \div 10)
                  ELSE "." \o ToString(frac \div 10) \o ToString(frac % 10)
    IN  (IF x < 0 THEN "-" ELSE "") \o ToString(whole) \o digits

\* write!(f, "{}°{}'{}\"", self.dd.abs(), self.mm, self.ss): the pieces
FmtDMSBasic(t) ==
    << ToString(I32Abs(t.dd)), "°", U32ToString(t.mm), "'",
       F64ToString(t.ss), "\"" >>

\* zero degrees put in the southern hemisphere
LatLetterStrict(dd) == IF dd > 0 THEN "N" ELSE "S"

\* the hemisphere letters of the two write! branches
LatLetter(dd) == IF dd >= 0 THEN "N" ELSE "S"
LonLetter(dd) == IF dd >= 0 THEN "E" ELSE "W"

\* fmt of DMS: "{}N, " or "{}S, ", then "{}E" or "{}W"
FmtDMS(d) ==
    FmtDMSBasic(d.lat) \o << LatLetter(d.lat.dd), ", " >>
        \o FmtDMSBasic(d.lon) \o << LonLetter(d.lon.dd) >>

----------------------------------------------------------------------------
(* Into<Coord> for DMS: the conversion back, which lives outside dms.rs.   *)
(* The degree field carries the sign of the whole value; minutes and       *)
(* seconds are added to its magnitude.                                     *)

TripleToDegrees(t) ==
    LET sign == IF t.dd < 0 THEN -1 ELSE 1
        mag  == (IF t.dd < 0 THEN -t.dd ELSE t.dd) * Degree
                    + t.mm * Minute + t.ss
    IN  sign * mag

CoordFromDMS(d) == Pair(TripleToDegrees(d.lat), TripleToDegrees(d.lon))

----------------------------------------------------------------------------
(* The inputs explored: windows around the values where the code branches. *)

\* seconds (counts): below zero, zero, 27.40, 60, 120, 3600, 3660, 7200
SsInputs ==
    UNION { Window(c) : c \in { -Minute, 0, 27 * SecRes + 40, Minute,
                                2 * Minute, 60 * Minute, 61 * Minute,
                                120 * Minute } }

\* minutes (u32): 0, 36, 60, 120, 2^31 and 2^32 - 1
MmInputs ==
    UNION { Window(c) : c \in { W, 36, 60, 120, I32Max - W, I32Min + W,
                                U32Max - W } }

\* degrees (i32): 0, the ends of the i32 range, and values far from 180
DdInputs ==
    Window(0) \cup Window(I32Max - W) \cup Window(I32Min + W)
        \cup { -1000, -1, 49, 1000 }

\* degree fields given to DMS::new: the multiples of `turn` and the ends of i32
TurnInputs(turn) ==
    UNION { Window(k * turn) : k \in -MaxTurns..MaxTurns } \cup { I32Min, I32Max }

\* minutes and seconds given to DMS::new
LowerInputs == { <<0, 0>>, <<36, 27 * SecRes + 40>>, <<59, Minute - 1>>, <<60, Minute>> }

LatInputs == { Triple(dd, l[1], l[2]) : dd \in TurnInputs(90), l \in LowerInputs }
LonInputs == { Triple(dd, l[1], l[2]) : dd \in TurnInputs(180), l \in LowerInputs }

\* 48.5863964 and 36.5291404 degrees, to the count: 48 35' 11.03" and 36 31' 44.91"
TestLat == 48 * Degree + 35 * Minute + 11 * SecRes + 3
TestLon == 36 * Degree + 31 * Minute + 44 * SecRes + 91

\* a set of magnitudes with their negatives
BothSigns(S) == S \cup { -c : c \in S }

\* decimal degrees (counts): 0, 60", 1 deg, 1 deg 1', the test's values, the
\* ends of the range and one degree beyond them
CoordLatInputs ==
    UNION { Window(c) : c \in BothSigns({ 0, Minute, Degree, Degree + Minute,
                                          TestLat, 90 * Degree - W, 91 * Degree }) }

CoordLonInputs ==
    UNION { Window(c) : c \in BothSigns({ 0, Minute, Degree, TestLon,
                                          180 * Degree - W, 181 * Degree }) }

----------------------------------------------------------------------------
(* The state machine: a client that builds one value with a constructor     *)
(* and then renders it or converts it back.  The operations are pure, so    *)
(* one construction from the initial state covers every call.              *)

NoTriple == Triple(0, 0, 0)
NoPair == Pair(NoTriple, NoTriple)
NoCoord == Pair(0, 0)

Init ==
    /\ overflowChecks \in BOOLEAN
    /\ call = "none"
    /\ argB = NoTriple
    /\ retB = NoTriple
    /\ argD = NoPair
    /\ argC = NoCoord
    /\ dms = NoPair
    /\ src = "none"
    /\ text = << >>
    /\ retC = NoCoord
    /\ panicked = FALSE
    /\ overflowed = FALSE

\* let t = DMSBasic::new(dd, mm, ss)
BasicNew ==
    /\ call = "none"
    /\ \E dd \in DdInputs, mm \in MmInputs, ss \in SsInputs :
         LET r == DMSBasicNew(dd, mm, ss, overflowChecks)
         IN  /\ call' = "DMSBasic::new"
             /\ argB' = Triple(dd, mm, ss)
             /\ retB' = IF r.panic THEN NoTriple ELSE r.value
             /\ panicked' = r.panic
             /\ overflowed' = r.overflow
    /\ argD' = NoPair
    /\ argC' = NoCoord
    /\ dms' = NoPair
    /\ src' = "none"
    /\ text' = << >>
    /\ retC' = NoCoord
    /\ UNCHANGED overflowChecks

\* let d = DMS::new(lat, lon)
DmsNew ==
    /\ call = "none"
    /\ \E lat \in LatInputs, lon \in LonInputs :
         /\ call' = "DMS::new"
         /\ argD' = Pair(lat, lon)
         /\ dms' = DMSNew(lat, lon)
    /\ src' = "DMS::new"
    /\ panicked' = FALSE
    /\ overflowed' = FALSE
    /\ argB' = NoTriple
    /\ retB' = NoTriple
    /\ argC' = NoCoord
    /\ text' = << >>
    /\ retC' = NoCoord
    /\ UNCHANGED overflowChecks

\* let d: DMS = coord.into()
FromCoord ==
    /\ call = "none"
    /\ \E lat \in CoordLatInputs, lon \in CoordLonInputs :
         LET coord == Pair(lat, lon)
             r == DMSFromCoord(coord, overflowChecks)
         IN  /\ call' = "From<Coord>"
             /\ argC' = coord
             /\ dms' = IF r.panic THEN NoPair ELSE r.value
             /\ src' = IF r.panic THEN "none" ELSE "From<Coord>"
             /\ panicked' = r.panic
             /\ overflowed' = r.overflow
    /\ argB' = NoTriple
    /\ retB' = NoTriple
    /\ argD' = NoPair
    /\ text' = << >>
    /\ retC' = NoCoord
    /\ UNCHANGED overflowChecks

\* format!("{}", d) of the DMS built last; dd.abs() overflows on i32::MIN
Fmt ==
    LET ovf == dms.lat.dd = I32Min \/ dms.lon.dd = I32Min
    IN  /\ ~panicked
        /\ src # "none"
        /\ call' = "fmt"
        /\ text' = IF overflowChecks /\ ovf THEN << >> ELSE FmtDMS(dms)
        /\ panicked' = (overflowChecks /\ ovf)
        /\ overflowed' = ovf
        /\ retC' = NoCoord
        /\ argB' = NoTriple
        /\ retB' = NoTriple
        /\ UNCHANGED <<overflowChecks, argD, argC, dms, src>>

\* let c: Coord = d.into() of the DMS built last
IntoCoord ==
    /\ ~panicked
    /\ src # "none"
    /\ call' = "Into<Coord>"
    /\ retC' = CoordFromDMS(dms)
    /\ panicked' = FALSE
    /\ overflowed' = FALSE
    /\ text' = << >>
    /\ argB' = NoTriple
    /\ retB' = NoTriple
    /\ UNCHANGED <<overflowChecks, argD, argC, dms, src>>

Next ==
    \/ BasicNew
    \/ DmsNew
    \/ FromCoord
    \/ Fmt
    \/ IntoCoord

Spec == Init /\ [][Next]_vars

----------------------------------------------------------------------------
(* Vocabulary of the properties. *)

Returned(op) == call = op /\ ~panicked

\* a u32 that holds a value of 0..k, for k < 2^31
U32AtMost(m, k) == m >= 0 /\ m <= k

\* the u32 r holds exactly m + c, and the i32 r holds exactly d + q
U32SumIs(m, c, r) == ~U32AddOverflows(m, c) /\ r = U32WrappingAdd(m, c)
I32SumIs(d, q, r) == ~I32AddOverflows(d, q) /\ r = I32WrappingAdd(d, q)

\* 0.01 second of arc, in counts
Hundredth == SecRes \div 100

\* the sexagesimal decomposition of T >= 0 seconds (counts)
Sexagesimal(T) == Triple(T \div Degree, (T \div Minute) % 60, T % Minute)

InLatRange(x) == -90 * Degree <= x /\ x <= 90 * Degree
InLonRange(x) == -180 * Degree <= x /\ x <= 180 * Degree

Near(x, y) == x - y <= Hundredth /\ y - x <= Hundredth

----------------------------------------------------------------------------
(* C1: for a Coord with a negative latitude (longitude), From<Coord> gives *)
(* a DMS whose degree field of that component is negative and whose        *)
(* minutes and seconds are non-negative.                                   *)
C1_NegativeCoordNegativeDegrees ==
    Returned("From<Coord>") =>
        /\ argC.lat < 0 => dms.lat.dd < 0 /\ dms.lat.ss >= 0
        /\ argC.lon < 0 => dms.lon.dd < 0 /\ dms.lon.ss >= 0

----------------------------------------------------------------------------
(* C2: for 0 <= lat <= 90 and 0 <= lon <= 180, From<Coord> gives for each  *)
(* component the sexagesimal decomposition of T = value * 3600 seconds,    *)
(* T = 60 and 3600 <= T < 3660 included.                                   *)
C2_DecompositionEverywhere ==
    ( /\ Returned("From<Coord>")
      /\ 0 <= argC.lat /\ InLatRange(argC.lat)
      /\ 0 <= argC.lon /\ InLonRange(argC.lon) ) =>
        /\ dms.lat = Sexagesimal(DegreesToSeconds(argC.lat))
        /\ dms.lon = Sexagesimal(DegreesToSeconds(argC.lon))

\* what From<Coord> gives for T seconds within the range: the decomposition,
\* but (0, 0, 60) at T = 60 and (0, 60, T - 3600) for 3600 <= T < 3660
StrictDecomposition(T) ==
    IF T = Minute THEN Triple(0, 0, Minute)
    ELSE IF Degree <= T /\ T < Degree + Minute THEN Triple(0, 60, T - Degree)
    ELSE Sexagesimal(T)

(* C2, amended: the decomposition holds for every T of the range except    *)
(* T = 60, which gives (0, 0, 60), and 3600 <= T < 3660, which gives       *)
(* (0, 60, T - 3600).                                                      *)
C2_DecompositionButStrictCarry ==
    ( /\ Returned("From<Coord>")
      /\ 0 <= argC.lat /\ InLatRange(argC.lat)
      /\ 0 <= argC.lon /\ InLonRange(argC.lon) ) =>
        /\ dms.lat = StrictDecomposition(DegreesToSeconds(argC.lat))
        /\ dms.lon = StrictDecomposition(DegreesToSeconds(argC.lon))

C2_Witness ==
    /\ Returned("From<Coord>")
    /\ argC = Pair(TestLat, Degree)
    /\ dms.lat = Triple(48, 35, 11 * SecRes + 3)
    /\ dms.lon = Triple(0, 60, 0)

----------------------------------------------------------------------------
----------------------------------------------------------------------------
(* C4: a call of DMSBasic::new with ss > 60 or mm > 60 constructs a triple *)
(* with 0 <= mm < 60 and 0 <= ss < 60.                                     *)
C4_LowerFieldsBelowSixty ==
    ( /\ Returned("DMSBasic::new")
      /\ (argB.ss > Minute \/ U32Gt(argB.mm, 60)) ) =>
        /\ U32AtMost(retB.mm, 59)
        /\ 0 <= retB.ss /\ retB.ss < Minute

(* C4, amended: such a call constructs a triple with 0 <= mm <= 60 and     *)
(* ss <= 60, where mm = 60 occurs only after a carry of seconds, ss = 60   *)
(* only for an input ss of exactly 60, and ss < 0 only for a negative      *)
(* input ss, which is returned as it is.                                   *)
C4_LowerFieldsAtMostSixty ==
    ( /\ Returned("DMSBasic::new")
      /\ (argB.ss > Minute \/ U32Gt(argB.mm, 60)) ) =>
        /\ U32AtMost(retB.mm, 60)
        /\ retB.ss <= Minute
        /\ retB.mm = 60 => argB.ss > Minute
        /\ retB.ss = Minute => argB.ss = Minute
        /\ retB.ss < 0 => argB.ss = retB.ss

C4_Witness ==
    /\ Returned("DMSBasic::new")
    /\ argB = Triple(0, 0, Degree)
    /\ retB = Triple(0, 60, 0)

----------------------------------------------------------------------------
(* C5: a call of DMSBasic::new with ss > 60 gives ss in [0, 60) and an mm  *)
(* field equal to the original mm plus floor(ss / 60).                     *)
C5_MinutesGainSecondsCarry ==
    ( /\ Returned("DMSBasic::new")
      /\ argB.ss > Minute ) =>
        /\ 0 <= retB.ss /\ retB.ss < Minute
        /\ U32SumIs(argB.mm, argB.ss \div Minute, retB.mm)

(* C5, amended: such a call gives ss in [0, 60), and an mm field equal to  *)
(* the original mm plus floor(ss / 60) when that sum is at most 60, dd     *)
(* being then the original dd; a larger sum is carried on into dd.         *)
C5_MinutesGainSecondsCarryUpToSixty ==
    ( /\ Returned("DMSBasic::new")
      /\ argB.ss > Minute ) =>
        /\ 0 <= retB.ss /\ retB.ss < Minute
        /\ ( U32AtMost(argB.mm, 60) /\ argB.mm + argB.ss \div Minute <= 60 ) =>
               /\ retB.mm = argB.mm + argB.ss \div Minute
               /\ retB.dd = argB.dd

C5_Witness ==
    /\ Returned("DMSBasic::new")
    /\ argB = Triple(49, 36, 2 * Minute + 1)
    /\ retB = Triple(49, 38, 1)

----------------------------------------------------------------------------
(* C6: a call of DMSBasic::new with mm > 60 gives mm in [0, 60) and a dd   *)
(* field equal to the original dd plus floor(mm / 60).                     *)
C6_DegreesGainMinutesCarry ==
    ( /\ call = "DMSBasic::new"
      /\ U32Gt(argB.mm, 60) ) =>
        /\ ~panicked
        /\ U32AtMost(retB.mm, 59)
        /\ I32SumIs(argB.dd, U32Div(argB.mm, 60), retB.dd)

----------------------------------------------------------------------------
(* C7: for every dd, every mm <= 60 and every ss <= 60 (60 itself and      *)
(* negative ss included), DMSBasic::new returns exactly its inputs.        *)
C7_WithinSixtyPassesThrough ==
    ( /\ call = "DMSBasic::new"
      /\ U32AtMost(argB.mm, 60)
      /\ argB.ss <= Minute ) =>
        /\ ~panicked
        /\ retB = argB

C7_Witness ==
    /\ Returned("DMSBasic::new")
    /\ argB = Triple(I32Min, 60, Minute)
    /\ retB = argB

----------------------------------------------------------------------------
(* C8: DMS::new replaces lat.dd by its truncated remainder by 90 exactly   *)
(* when lat.dd < -90 or lat.dd > 90, and lon.dd by its truncated remainder *)
(* by 180 exactly when lon.dd < -180 or lon.dd > 180; mm and ss are        *)
(* returned unchanged; the result has |lat.dd| <= 90 and |lon.dd| <= 180.  *)

\* r is the remainder of a by n with the sign of a
IsTruncatedRemainder(r, a, n) ==
    /\ -n < r /\ r < n
    /\ a >= 0 => r >= 0
    /\ a <= 0 => r <= 0
    /\ (a - r) % n = 0

Reduced(out, in, n) ==
    /\ out.mm = in.mm
    /\ out.ss = in.ss
    /\ -n <= out.dd /\ out.dd <= n
    /\ IF in.dd < -n \/ in.dd > n
       THEN IsTruncatedRemainder(out.dd, in.dd, n)
       ELSE out.dd = in.dd

C8_DegreesReduced ==
    call = "DMS::new" =>
        /\ ~panicked
        /\ Reduced(dms.lat, argD.lat, 90)
        /\ Reduced(dms.lon, argD.lon, 180)

C8_Witness ==
    /\ Returned("DMS::new")
    /\ argD = Pair(Triple(-91, 59, Minute - 1), Triple(180, 60, Minute))
    /\ dms = Pair(Triple(-1, 59, Minute - 1), Triple(180, 60, Minute))

----------------------------------------------------------------------------
(* C9: construction is total: DMSBasic::new and DMS::new return for every  *)
(* input, no carry leaving the 32-bit range of mm or dd.                   *)
C9_ConstructionTotal ==
    call \in { "DMSBasic::new", "DMS::new" } => ~panicked /\ ~overflowed

----------------------------------------------------------------------------
(* C10: rendering a DMS emits the latitude triple, N when lat.dd >= 0 and  *)
(* S when lat.dd < 0, then ", ", the longitude triple, E when lon.dd >= 0  *)
(* and W when lon.dd < 0; zero degrees render N / E, and the degrees       *)
(* printed are the absolute value of dd.                                   *)
Magnitude(d) == IF d < 0 THEN -d ELSE d

C10_HemisphereRendering ==
    call = "fmt" =>
        /\ ~panicked
        /\ Len(text) = 15
        /\ SubSeq(text, 1, 6) = FmtDMSBasic(dms.lat)
        /\ text[1] = ToString(Magnitude(dms.lat.dd))
        /\ dms.lat.dd >= 0 => text[7] = "N"
        /\ dms.lat.dd < 0 => text[7] = "S"
        /\ text[8] = ", "
        /\ SubSeq(text, 9, 14) = FmtDMSBasic(dms.lon)
        /\ text[9] = ToString(Magnitude(dms.lon.dd))
        /\ dms.lon.dd >= 0 => text[15] = "E"
        /\ dms.lon.dd < 0 => text[15] = "W"

C10_Witness ==
    /\ Returned("fmt")
    /\ dms = Pair(Triple(0, 36, 27 * SecRes + 40), Triple(-2, 59, Minute - 1))
    /\ text = << "0", "°", "36", "'", "27.4", "\"", "N", ", ",
                 "2", "°", "59", "'", "59.99", "\"", "W" >>

====
